---- MODULE Spec2Model ----
(***************************************************************************)
(* Model of Descarga_Videos_Youtube.py: the download / rename / transcode  *)
(* / audio pipeline of DownloadTask.run, the helpers it calls, and the     *)
(* window (DescargadorApp) that submits tasks and handles their signals.   *)
(*                                                                         *)
(* File names are sequences of one-character strings, so that              *)
(* sanitize_filename and os.path.splitext are computed as the code         *)
(* computes them.  A path is a record [dir, name]: os.path.join(carpeta,   *)
(* name), os.path.dirname and os.path.basename act on its two fields.      *)
(***************************************************************************)
EXTENDS Integers, Sequences, FiniteSets, TLC

VARIABLES
    platform,     \* os.name of the host: "nt" or "posix"
    fs,           \* the file system: a function from existing paths to contents
    task,         \* the DownloadTask objects, by id
    emitted,      \* per task: the signals emitted on task.signals, in order
    ops,          \* per task: the side effects run() has performed, in order
    queue,        \* queued signal deliveries waiting in the UI thread's event loop
    button,       \* descargarButton.isEnabled()
    progressBar,  \* progressBar.value()
    dialogs,      \* number of open modal QMessageBox dialogs
    applied,      \* per task: the UI handlers run for its signals, in order
    arg,          \* the argument of the function under study (a string, a record)
    ret           \* the values its successive calls have returned, in order

vars == <<platform, fs, task, emitted, ops, queue, button, progressBar, dialogs, applied,
          arg, ret>>

(***************************************************************************)
(* Bounds                                                                  *)
(***************************************************************************)
MaxTasks == 2        \* DownloadTask objects created in one behaviour
MaxProgress == 1     \* progress records the engine reports per download
MaxPreexisting == 1  \* files present in the folder before the run
MaxStrLen == 3       \* length of the strings handed to sanitize_filename

TaskIds == 1 .. MaxTasks

(***************************************************************************)
(* Strings as sequences of characters                                      *)
(***************************************************************************)
BadChars == {"<", ">", ":", "\"", "/", "\\", "|", "?", "*"}
\* The characters str.strip() removes: those for which str.isspace() holds.
\* A character TLA+ cannot write is named by its Python escape.
Whitespace ==
    {" ", "\t", "\n", "\r", "\f", "\\x0b", "\\x1c", "\\x1d", "\\x1e", "\\x1f",
     "\\x85", "\\xa0", "\\u1680", "\\u2000", "\\u2001", "\\u2002", "\\u2003",
     "\\u2004", "\\u2005", "\\u2006", "\\u2007", "\\u2008", "\\u2009", "\\u200a",
     "\\u2028", "\\u2029", "\\u202f", "\\u205f", "\\u3000"}

\* The characters float() ignores around a number: the same but for the four
\* separators 0x1c-0x1f.
FloatWhitespace == Whitespace \ {"\\x1c", "\\x1d", "\\x1e", "\\x1f"}

\* Faulty variant: re.sub(..., count=1) replaces the first match only.
ReplaceBad_first(s) ==
    [i \in 1 .. Len(s) |->
        IF s[i] \in BadChars /\ \A j \in 1 .. (i - 1) : s[j] \notin BadChars
        THEN "_" ELSE s[i]]

\* re.sub(r'[<>:"/\\|?*]', '_', filename)
ReplaceBad(s) == [i \in 1 .. Len(s) |-> IF s[i] \in BadChars THEN "_" ELSE s[i]]

\* s without its leading and trailing characters of 'chars'
StripChars(s, chars) ==
    LET keep == {i \in 1 .. Len(s) : s[i] \notin chars}
    IN  IF keep = {} THEN <<>>
        ELSE LET lo == CHOOSE i \in keep : \A j \in keep : i <= j
                 hi == CHOOSE i \in keep : \A j \in keep : j <= i
             IN  SubSeq(s, lo, hi)

\* str.strip(): drop leading and trailing whitespace
Strip(s) == StripChars(s, Whitespace)

sanitize_filename(filename) == Strip(ReplaceBad(filename))

\* os.path.splitext on a base name: the extension starts at the last dot,
\* unless only dots precede it.
splitext(p) ==
    LET dots == {i \in 1 .. Len(p) : p[i] = "."}
    IN  IF dots = {} THEN <<p, <<>>>>
        ELSE LET d == CHOOSE i \in dots : \A j \in dots : j <= i
             IN  IF \E j \in 1 .. (d - 1) : p[j] # "."
                 THEN <<SubSeq(p, 1, d - 1), SubSeq(p, d, Len(p))>>
                 ELSE <<p, <<>>>>

join(carpeta, name) == [dir |-> carpeta, name |-> name]
dirname(path) == path.dir
basename(path) == path.name
exists(files, path) == path \in DOMAIN files

NoPath == [dir |-> <<>>, name |-> <<>>]

\* str.lower() of the two video formats descargar_video can pass
Lower(fmt) == IF fmt = "AVI" THEN <<"a", "v", "i">> ELSE <<"m", "p", "4">>
IsAvi(fmt) == SubSeq(Lower(fmt), 1, 3) = <<"a", "v", "i">>

(***************************************************************************)
(* Percent strings and float()                                             *)
(***************************************************************************)
DigitChars == <<"0", "1", "2", "3", "4", "5", "6", "7", "8", "9">>
IsDigit(c) == \E i \in 1 .. 10 : DigitChars[i] = c
DigitVal(c) == (CHOOSE i \in 1 .. 10 : DigitChars[i] = c) - 1

\* str.replace(pat, ''): every occurrence of pat, left to right, is dropped.
RECURSIVE RemoveAll(_, _)
RemoveAll(s, pat) ==
    IF Len(s) < Len(pat) THEN s
    ELSE IF SubSeq(s, 1, Len(pat)) = pat
         THEN RemoveAll(SubSeq(s, Len(pat) + 1, Len(s)), pat)
         ELSE <<Head(s)>> \o RemoveAll(Tail(s), pat)

\* A float with a finite decimal expansion, num / 10^scale, in lowest form.
RECURSIVE Float(_, _)
Float(num, scale) ==
    IF scale > 0 /\ num % 10 = 0 THEN Float(num \div 10, scale - 1)
    ELSE [num |-> num, scale |-> scale]

RECURSIVE Pow10(_)
Pow10(k) == IF k = 0 THEN 1 ELSE 10 * Pow10(k - 1)

\* int(valor) of a float that is not negative
int(x) == x.num \div Pow10(x.scale)

RECURSIVE DigitsValue(_)
DigitsValue(s) ==
    IF s = <<>> THEN 0
    ELSE DigitsValue(SubSeq(s, 1, Len(s) - 1)) * 10 + DigitVal(s[Len(s)])

\* float(s): surrounding whitespace (FloatWhitespace) is ignored; digits with at most one
\* decimal point and at least one digit are a number; anything else raises
\* ValueError.  (Signs, exponents, inf and nan are outside the alphabet of
\* the percent strings.)
FloatOf(s) ==
    LET u == StripChars(s, FloatWhitespace)
        dots == {i \in 1 .. Len(u) : u[i] = "."}
        digits == SelectSeq(u, IsDigit)
        valid == /\ \A i \in 1 .. Len(u) : IsDigit(u[i]) \/ u[i] = "."
                 /\ Cardinality(dots) <= 1
                 /\ digits # <<>>
        scale == IF dots = {} THEN 0
                 ELSE Len(u) - (CHOOSE i \in dots : TRUE)
    IN  IF valid THEN [ok |-> TRUE, value |-> Float(DigitsValue(digits), scale)]
        ELSE [ok |-> FALSE, value |-> Float(0, 0)]

ESC == "\\x1b"
AnsiBlue == <<ESC, "[", "0", ";", "9", "4", "m">>
AnsiReset == <<ESC, "[", "0", "m">>

(***************************************************************************)
(* Inputs                                                                  *)
(***************************************************************************)
Titles == { <<"a">>, <<"a", "?">>, <<" ", "a">>, <<".">> }
Exts == { <<".", "m", "p", "4">>, <<".", "a", "v", "i">> }
VideoFormats == {"AVI", "MP4"}
AudioFormats == {"MP3", "WAV"}
Folders == {<<"d1">>, <<"d2">>}
Platforms == {"nt", "posix"}

\* The folders the download engine can write to.
UsableFolders == Folders

DotsOnly(s) == \A i \in 1 .. Len(s) : s[i] = "."

\* The stem the download engine gives the file it writes ('%(title)s' of the
\* output template): the title as it is or a name the engine has already
\* made safe; a title of dots alone is replaced, so that the file always
\* carries the extension the engine reports.
EngineStems(title) ==
    IF DotsOnly(title) THEN {<<"_">>} ELSE {title, sanitize_filename(title)}

\* File contents: who wrote the file and what it is.
Old == [by |-> 0, kind |-> "old"]
File(t, kind) == [by |-> t, kind |-> kind]

Write(files, path, content) ==
    [p \in DOMAIN files \cup {path} |-> IF p = path THEN content ELSE files[p]]
Remove(files, path) == [p \in DOMAIN files \ {path} |-> files[p]]

(***************************************************************************)
(* DownloadTask                                                            *)
(***************************************************************************)
NoTask ==
    [pc |-> "none", connected |-> FALSE, url |-> <<>>, carpeta |-> <<>>,
     separar_audio |-> FALSE, formato_video |-> "MP4", formato_audio |-> "MP3",
     nprog |-> 0, title |-> <<>>, original_video_path |-> NoPath,
     safe_title |-> <<>>, sanitized_video_path |-> NoPath,
     video_output_path |-> NoPath, final_output_path |-> NoPath,
     audio_wav_path |-> NoPath, ffmpeg_input |-> FALSE]

\* DownloadTask.__init__
NewTask(url, carpeta, separar_audio, formato_video, formato_audio) ==
    [NoTask EXCEPT !.pc = "pending", !.url = url, !.carpeta = carpeta,
                   !.separar_audio = separar_audio,
                   !.formato_video = formato_video,
                   !.formato_audio = formato_audio]

Op(name, path, to) == [op |-> name, path |-> path, to |-> to]

\* A signal of DownloadSignals with its argument: the value of 'progress', or
\* the message of 'finished' and 'error' as its fixed text and what it embeds.
Signal(name, prefix, cause, value) ==
    [name |-> name, prefix |-> prefix, cause |-> cause, value |-> value]

\* Faulty variant: one DownloadSignals object is shared by every task.
Emit_shared(t, sig) ==
    /\ emitted' = [emitted EXCEPT ![1] = Append(@, sig)]
    /\ queue' = IF task[t].connected
                THEN Append(queue, [task |-> t, sig |-> sig])
                ELSE queue

\* signal.emit(...): recorded on the task's own signals object and, when a
\* slot of the window is connected, queued for the UI thread.
Emit(t, sig) ==
    /\ emitted' = [emitted EXCEPT ![t] = Append(@, sig)]
    /\ queue' = IF task[t].connected
                THEN Append(queue, [task |-> t, sig |-> sig])
                ELSE queue

\* Faulty variant: the download-specific clause is lost; every failure is unexpected.
ErrorPrefix_generic(exc) == "Error inesperado: "

ErrorPrefix(exc) ==
    IF exc = "DownloadError" THEN "Error al descargar el video: "
    ELSE "Error inesperado: "

\* Faulty variant: only DownloadError is caught; any other exception leaves run().
Except_onlyDownloadError(t, exc, files, log) ==
    /\ task' = [task EXCEPT ![t].pc = "done"]
    /\ IF exc = "DownloadError"
       THEN Emit(t, Signal("error", ErrorPrefix(exc), exc, Float(0, 0)))
       ELSE UNCHANGED <<emitted, queue>>
    /\ fs' = files
    /\ ops' = [ops EXCEPT ![t] = log]
    /\ UNCHANGED <<platform, button, progressBar, dialogs, applied>>

\* Faulty variant: the handler also deletes what the run has written.
Except_cleanup(t, exc, files, log) ==
    /\ task' = [task EXCEPT ![t].pc = "done"]
    /\ Emit(t, Signal("error", ErrorPrefix(exc), exc, Float(0, 0)))
    /\ fs' = [p \in {q \in DOMAIN files : files[q].by # t} |-> files[p]]
    /\ ops' = [ops EXCEPT ![t] = log]
    /\ UNCHANGED <<platform, button, progressBar, dialogs, applied>>

\* The two except clauses of run(): the exception becomes one 'error' signal
\* and run() returns.
Except(t, exc, files, log) ==
    /\ task' = [task EXCEPT ![t].pc = "done"]
    /\ Emit(t, Signal("error", ErrorPrefix(exc), exc, Float(0, 0)))
    /\ fs' = files
    /\ ops' = [ops EXCEPT ![t] = log]
    /\ UNCHANGED <<platform, button, progressBar, dialogs, applied>>

\* run() goes on to its next statement.
Goto(t, newTask, files, log) ==
    /\ task' = [task EXCEPT ![t] = newTask]
    /\ fs' = files
    /\ ops' = [ops EXCEPT ![t] = log]
    /\ UNCHANGED <<platform, emitted, queue, button, progressBar, dialogs, applied>>

\* The worker pool starts run(): it builds the options and calls the engine.
Start(t) ==
    /\ task[t].pc = "pending"
    /\ Goto(t, [task[t] EXCEPT !.pc = "downloading"], fs, ops[t])

\* ydl.extract_info(url, download=True) and ydl.prepare_filename return, or
\* raise: the engine materialises the file at the path it resolved, which it
\* can do only in a folder that exists or can be created.  The engine draws
\* the title and the extension of the media from 'titles' and 'exts'.
DownloadEnd(t, titles, exts) ==
    /\ task[t].pc = "downloading"
    /\ \/ \E title \in titles, ext \in exts :
            \E stem \in EngineStems(title) :
              /\ task[t].carpeta \in UsableFolders
              /\
                 LET path == join(task[t].carpeta, stem \o ext)
                 IN  Goto(t, [task[t] EXCEPT !.pc = "downloaded", !.title = title,
                                             !.original_video_path = path],
                          Write(fs, path, File(t, "download")),
                          Append(ops[t], Op("download", path, NoPath)))
       \/ \E exc \in {"DownloadError", "Exception"} :
            Except(t, exc, fs, ops[t])

\* os.rename(src, dst): what it can do.  Without the source it raises
\* FileNotFoundError; on Windows an existing target makes it raise
\* FileExistsError; and the system may refuse it (a protected or locked
\* file, a read-only folder) with PermissionError.
RenameOutcomes(files, src, dst) ==
    IF ~exists(files, src) THEN {"FileNotFoundError"}
    ELSE {IF exists(files, dst) /\ platform = "nt" THEN "FileExistsError" ELSE "ok",
          "PermissionError"}

\* Faulty variant: the file is copied and the source is left behind.
os_rename_copy(files, src, dst) == Write(files, dst, files[src])

\* The file system after a successful os.rename(src, dst).
os_rename(files, src, dst) == Write(Remove(files, src), dst, files[src])

\* Lines 201-210: the safe title, the sanitized path and the rename.
Rename(t) ==
    /\ task[t].pc = "downloaded"
    /\ LET safe_title == sanitize_filename(task[t].title)
           original == task[t].original_video_path
           ext_original == splitext(basename(original))[2]
           sanitized == join(task[t].carpeta, safe_title \o ext_original)
           next == [task[t] EXCEPT !.pc = "renamed", !.safe_title = safe_title,
                                   !.sanitized_video_path = sanitized]
       IN  IF sanitized # original
           THEN \E r \in RenameOutcomes(fs, original, sanitized) :
                  IF r = "ok"
                  THEN Goto(t, next, os_rename(fs, original, sanitized),
                            Append(ops[t], Op("rename", original, sanitized)))
                  ELSE Except(t, r, fs,
                              Append(ops[t], Op("rename", original, sanitized)))
           ELSE Goto(t, next, fs, ops[t])

\* os.remove(path): the file is there when the call is made and is removed,
\* or cannot be (a locked or protected file); it is not there any more and
\* the call raises FileNotFoundError.
RemoveOutcomes(files, path) ==
    IF exists(files, path) THEN {"ok", "PermissionError"}
    ELSE {"FileNotFoundError"}

\* os.remove(path) as a statement of run(), which goes on as 'next'.
os_remove(t, path, next) ==
    LET log == Append(ops[t], Op("remove", path, NoPath))
    IN  \E r \in RemoveOutcomes(fs, path) :
          IF r = "ok" THEN Goto(t, next, Remove(fs, path), log)
          ELSE Except(t, r, fs, log)

\* if os.path.exists(path): the test alone.  run() goes on as 'found' when
\* the file is there and as 'missing' when it is not.
os_path_exists(t, path, found, missing) ==
    IF exists(fs, path) THEN Goto(t, found, fs, ops[t])
    ELSE Goto(t, missing, fs, ops[t])

\* subprocess.run(['ffmpeg', ...], check=True), once the process has been
\* started: exit code 0 with the output written, or CalledProcessError with
\* or without a partial output.  ffmpeg opens its input when it starts
\* ('opened'); without it ffmpeg writes nothing.
FfmpegOutcomes(opened) ==
    IF opened
    THEN {"ok", "CalledProcessError", "CalledProcessError_partial"}
    ELSE {"CalledProcessError"}

\* convertir_a_avi_divx / convertir_audio_a_mp3 up to the test of line 93 /
\* 111: the output name is sanitized again and looked for.  run() is at
\* 'pcStart'; it goes on at 'removing' when the output is there and at
\* 'starting' when it is not.
ConvertStart(t, pcStart, removing, starting, output_path) ==
    /\ task[t].pc = pcStart
    /\ LET carpeta == dirname(output_path)
           nombre_archivo == sanitize_filename(basename(output_path))
           final_output_path == join(carpeta, nombre_archivo)
       IN  os_path_exists(t, final_output_path,
                          [task[t] EXCEPT !.pc = removing,
                                          !.final_output_path = final_output_path],
                          [task[t] EXCEPT !.pc = starting,
                                          !.final_output_path = final_output_path])

\* Line 94 / 112: os.remove(final_output_path).
ConvertRemove(t, removing, starting) ==
    /\ task[t].pc = removing
    /\ os_remove(t, task[t].final_output_path, [task[t] EXCEPT !.pc = starting])

\* Line 99 / 117, the call: the ffmpeg process is started (or cannot be:
\* ffmpeg is not installed) and opens its input.
ConvertRun(t, starting, running, opname, input) ==
    /\ task[t].pc = starting
    /\ LET log == Append(ops[t], Op(opname, input, task[t].final_output_path))
       IN  \/ Goto(t, [task[t] EXCEPT !.pc = running,
                                      !.ffmpeg_input = exists(fs, input)],
                   fs, log)
           \/ Except(t, "FileNotFoundError", fs, log)

\* Line 99 / 117, the return: the ffmpeg process exits; on success run()
\* goes on as 'next'.
ConvertExit(t, running, next, kind) ==
    /\ task[t].pc = running
    /\ \E r \in FfmpegOutcomes(task[t].ffmpeg_input) :
         LET out == task[t].final_output_path
         IN  IF r = "ok"
             THEN Goto(t, next, Write(fs, out, File(t, kind)), ops[t])
             ELSE Except(t, "CalledProcessError",
                         IF r = "CalledProcessError_partial"
                         THEN Write(fs, out, File(t, "partial")) ELSE fs,
                         ops[t])

\* Lines 215-218: the output path for the chosen video format.
VideoOutputPath(t) ==
    join(task[t].carpeta,
         task[t].safe_title \o <<".">> \o Lower(task[t].formato_video))

\* Lines 220-222 and 83-93: AVI (DivX) was chosen; convertir_a_avi_divx
\* looks for its output.
AviStart(t) ==
    /\ IsAvi(task[t].formato_video)
    /\ ConvertStart(t, "renamed", "avi_removing", "avi_starting",
                    VideoOutputPath(t))

\* Line 94: the output that was found is removed.
AviRemove(t) ==
    ConvertRemove(t, "avi_removing", "avi_starting")

\* Line 99: ffmpeg is started.
AviRun(t) ==
    ConvertRun(t, "avi_starting", "avi_running", "convertir_a_avi_divx",
               task[t].sanitized_video_path)

\* Line 99: ffmpeg exits.
AviExit(t) ==
    ConvertExit(t, "avi_running",
                [task[t] EXCEPT !.pc = "avi_done",
                                !.video_output_path = VideoOutputPath(t)],
                "avi")

\* Line 224: the pre-conversion file is looked for.
OriginalExists(t) ==
    /\ task[t].pc = "avi_done"
    /\ os_path_exists(t, task[t].sanitized_video_path,
                      [task[t] EXCEPT !.pc = "original_removing"],
                      [task[t] EXCEPT !.pc = "audio"])

\* Line 225: the pre-conversion file that was found is removed.
RemoveOriginal(t) ==
    /\ task[t].pc = "original_removing"
    /\ os_remove(t, task[t].sanitized_video_path,
                 [task[t] EXCEPT !.pc = "audio"])

\* Lines 226-229: any other format keeps the downloaded file as it is.
KeepVideo(t) ==
    /\ task[t].pc = "renamed"
    /\ ~IsAvi(task[t].formato_video)
    /\ Goto(t, [task[t] EXCEPT !.pc = "audio",
                               !.video_output_path = task[t].sanitized_video_path],
            fs, ops[t])

\* Lines 232-234 and 124-135: extraer_audio(video_output_path) opens the
\* video (VideoFileClip raises if there is no such file), names the WAV and
\* calls write_audiofile.
ExtraerAudio(t) ==
    /\ task[t].pc = "audio"
    /\ task[t].separar_audio
    /\ LET video_path == task[t].video_output_path
           carpeta == dirname(video_path)
           base_sin_ext == sanitize_filename(splitext(basename(video_path))[1])
           audio_path == join(carpeta, base_sin_ext \o <<".", "w", "a", "v">>)
           log == Append(ops[t], Op("extraer_audio", video_path, audio_path))
           next == [task[t] EXCEPT !.pc = "extracting", !.audio_wav_path = audio_path]
       IN  IF ~exists(fs, video_path)
           THEN Except(t, "OSError", fs, log)
           ELSE Goto(t, next, fs, log)

\* What MoviePy does in write_audiofile: it writes the WAV, leaves without
\* writing it, or raises, before or while writing.
ExtractOutcomes == {"ok", "nowrite", "Exception", "Exception_partial"}

\* Line 136: write_audiofile returns or raises.
WriteAudiofile(t) ==
    /\ task[t].pc = "extracting"
    /\ LET audio_path == task[t].audio_wav_path
           next == [task[t] EXCEPT !.pc = "written"]
       IN  \E r \in ExtractOutcomes :
             CASE r = "ok" ->
                    Goto(t, next, Write(fs, audio_path, File(t, "wav")), ops[t])
               [] r = "nowrite" -> Goto(t, next, fs, ops[t])
               [] r = "Exception" -> Except(t, r, fs, ops[t])
               [] OTHER ->
                    Except(t, "Exception",
                           Write(fs, audio_path, File(t, "partial")), ops[t])

\* Lines 138-142: extraer_audio returns the path of the WAV if a file is
\* there now and raises RuntimeError if not.
AudioExists(t) ==
    /\ task[t].pc = "written"
    /\ IF exists(fs, task[t].audio_wav_path)
       THEN Goto(t, [task[t] EXCEPT !.pc = "extracted"], fs, ops[t])
       ELSE Except(t, "RuntimeError", fs, ops[t])

\* Lines 257-261: no audio was asked for.
NoAudio(t) ==
    /\ task[t].pc = "audio"
    /\ ~task[t].separar_audio
    /\ Goto(t, [task[t] EXCEPT !.pc = "message"], fs, ops[t])

\* Faulty variant: the WAV is transcoded whatever the audio format.
Mp3Start_always(t) ==
    ConvertStart(t, "extracted", "mp3_removing", "mp3_starting",
                 join(task[t].carpeta,
                      task[t].safe_title \o <<".", "m", "p", "3">>))

\* Lines 236-241 and 107-111: MP3 was chosen; convertir_audio_a_mp3 looks
\* for its output.
Mp3Start(t) ==
    /\ task[t].formato_audio = "MP3"
    /\ ConvertStart(t, "extracted", "mp3_removing", "mp3_starting",
                    join(task[t].carpeta,
                         task[t].safe_title \o <<".", "m", "p", "3">>))

\* Line 112: the output that was found is removed.
Mp3Remove(t) ==
    ConvertRemove(t, "mp3_removing", "mp3_starting")

\* Line 117: ffmpeg is started.
Mp3Run(t) ==
    ConvertRun(t, "mp3_starting", "mp3_running", "convertir_audio_a_mp3",
               task[t].audio_wav_path)

\* Line 117: ffmpeg exits.
Mp3Exit(t) ==
    ConvertExit(t, "mp3_running", [task[t] EXCEPT !.pc = "mp3_done"], "mp3")

\* Line 244: the WAV is looked for.
WavExists(t) ==
    /\ task[t].pc = "mp3_done"
    /\ os_path_exists(t, task[t].audio_wav_path,
                      [task[t] EXCEPT !.pc = "wav_removing"],
                      [task[t] EXCEPT !.pc = "message"])

\* Faulty variant: the WAV is left in the folder.
RemoveWav_skip(t) ==
    /\ task[t].pc = "wav_removing"
    /\ Goto(t, [task[t] EXCEPT !.pc = "message"], fs, ops[t])

\* Line 245: the WAV that was found is removed.
RemoveWav(t) ==
    /\ task[t].pc = "wav_removing"
    /\ os_remove(t, task[t].audio_wav_path, [task[t] EXCEPT !.pc = "message"])

\* Lines 251-256: any other audio format keeps the WAV.
KeepWav(t) ==
    /\ task[t].pc = "extracted"
    /\ task[t].formato_audio # "MP3"
    /\ Goto(t, [task[t] EXCEPT !.pc = "message"], fs, ops[t])

\* mensaje_final, as its fixed text and the formats it names.
MensajeFinal(t) ==
    IF task[t].separar_audio
    THEN IF task[t].formato_audio = "MP3"
         THEN Signal("finished", "Se ha creado el archivo",
                     <<task[t].safe_title, task[t].formato_video,
                       task[t].formato_audio>>, Float(0, 0))
         ELSE Signal("finished", "Se ha creado el archivo",
                     <<task[t].safe_title, task[t].formato_video, "WAV">>, Float(0, 0))
    ELSE Signal("finished", "Video descargado",
                <<task[t].safe_title, task[t].formato_video>>, Float(0, 0))

\* Line 263: self.signals.finished.emit(mensaje_final); run() returns.
Finish(t) ==
    /\ task[t].pc = "message"
    /\ task' = [task EXCEPT ![t].pc = "done"]
    /\ Emit(t, MensajeFinal(t))
    /\ UNCHANGED <<platform, fs, ops, button, progressBar, dialogs, applied>>

(***************************************************************************)
(* Progress hook                                                           *)
(***************************************************************************)
\* The record the engine hands to the hook while it downloads: d['status']
\* and d['_percent_str'], a coloured, padded percentage.
ProgressRecords ==
    { [status |-> "downloading", has_percent |-> TRUE,
       percent_str |-> AnsiBlue \o <<" ", "7", ".", "0", "%">> \o AnsiReset] }

\* Lines 172-174: d.get('_percent_str', '0%'), stripped and without '%' and
\* the two colour codes.
PorcentajeStr(d) ==
    LET raw == IF d.has_percent THEN d.percent_str ELSE <<"0", "%">>
    IN  RemoveAll(RemoveAll(RemoveAll(Strip(raw), <<"%">>), AnsiBlue), AnsiReset)

\* Faulty variant: the except clause names another exception.
HookCaught_other == {"TypeError"}

\* Line 177: except ValueError
HookCaught == {"ValueError"}

\* Lines 175-178: the percent string becomes a float, 0.0 if float() raises
\* an exception the except clause catches.
Porcentaje(d) ==
    LET f == FloatOf(PorcentajeStr(d))
    IN  IF f.ok THEN f.value ELSE Float(0, 0)

\* The exception that leaves actualizar_progreso(d), "none" if it returns.
HookRaises(d) ==
    IF d.status = "downloading" /\ ~FloatOf(PorcentajeStr(d)).ok
                                /\ "ValueError" \notin HookCaught
    THEN "ValueError" ELSE "none"

\* Faulty variant: the engine still calls the hook after run() has returned.
ProgressHook_late(t, records) ==
    /\ task[t].pc \in {"downloading", "done"}
    /\ task[t].nprog < MaxProgress
    /\ \E d \in records :
         IF HookRaises(d) # "none"
         THEN Except(t, HookRaises(d), fs, ops[t])
         ELSE /\ task' = [task EXCEPT ![t].nprog = @ + 1]
              /\ IF d.status = "downloading"
                 THEN Emit(t, Signal("progress", "", "", Porcentaje(d)))
                 ELSE UNCHANGED <<emitted, queue>>
              /\ UNCHANGED <<platform, fs, ops, button, progressBar, dialogs,
                             applied>>

\* DownloadTask.actualizar_progreso(d), called by the engine from inside
\* extract_info, on the worker thread, with a record of 'records'.  An
\* exception that leaves the hook leaves extract_info and reaches the except
\* clauses of run().
ProgressHook(t, records) ==
    /\ task[t].pc = "downloading"
    /\ task[t].nprog < MaxProgress
    /\ \E d \in records :
         IF HookRaises(d) # "none"
         THEN Except(t, HookRaises(d), fs, ops[t])
         ELSE /\ task' = [task EXCEPT ![t].nprog = @ + 1]
              /\ IF d.status = "downloading"
                 THEN Emit(t, Signal("progress", "", "", Porcentaje(d)))
                 ELSE UNCHANGED <<emitted, queue>>
              /\ UNCHANGED <<platform, fs, ops, button, progressBar, dialogs,
                             applied>>

(***************************************************************************)
(* DescargadorApp                                                          *)
(***************************************************************************)
UrlTexts == { <<>>, <<" ">>, <<" ", "u">> }
CarpetaTexts == { <<>>, <<"d1", " ">>, <<"nodir">> }
VideoComboTexts == { <<"AVI", "(DivX)">>, <<"MP4">> }

\* A task object that is gone: run() has returned and every signal it
\* emitted has been delivered.
Dead(t) ==
    /\ task[t].pc = "done"
    /\ \A i \in 1 .. Len(queue) : queue[i].task # t

\* What the window's submissions make the engine see.
UITitles == { <<"a", "?">> }
UIExts == { <<".", "m", "p", "4">> }
UIProgressRecords ==
    { [status |-> "downloading", has_percent |-> TRUE,
       percent_str |-> <<" ", "4", "5", ".", "3", "%">>],
      [status |-> "finished", has_percent |-> TRUE,
       percent_str |-> <<"1", "0", "0", "%">>] }

\* Faulty variant: the button is not disabled while a download runs.
ButtonLeftEnabled == TRUE

\* Line 354: self.descargarButton.setEnabled(False)
ButtonWhileDownloading == FALSE

\* descargar_video(): the slot of descargarButton.clicked.  A disabled button
\* emits no click, and neither does a window blocked by a modal dialog.
descargar_video(urlText, carpetaText, separar_audio, audioText, videoText) ==
    /\ button
    /\ dialogs = 0
    /\ LET url == Strip(urlText)
           carpeta == Strip(carpetaText)
           formato_audio == audioText
           formato_video == Head(videoText)
       IN  IF url = <<>> \/ carpeta = <<>>
           THEN /\ dialogs' = dialogs + 1
                /\ UNCHANGED <<platform, fs, task, emitted, ops, queue, button,
                               progressBar, applied>>
           ELSE \E t \in TaskIds :
                  /\ task[t].pc = "none" \/ Dead(t)
                  /\ \A u \in TaskIds : u < t => ~(task[u].pc = "none" \/ Dead(u))
                  /\ button' = ButtonWhileDownloading
                  /\ task' = [task EXCEPT ![t] =
                                [NewTask(url, carpeta, separar_audio, formato_video,
                                         formato_audio) EXCEPT !.connected = TRUE]]
                  /\ emitted' = [emitted EXCEPT ![t] = <<>>]
                  /\ ops' = [ops EXCEPT ![t] = <<>>]
                  /\ applied' = [applied EXCEPT ![t] = <<>>]
                  /\ UNCHANGED <<platform, fs, queue, progressBar, dialogs>>

\* DescargadorApp.actualizar_progreso(valor)
actualizar_progreso(t, valor) ==
    /\ progressBar' = int(valor)
    /\ UNCHANGED <<button, dialogs>>

\* Faulty variant: the button is left disabled.
on_descarga_terminada_disabled(t) ==
    /\ button' = button
    /\ progressBar' = 0
    /\ dialogs' = dialogs + 1

\* Faulty variant: the progress bar keeps its last value.
on_descarga_terminada_noreset(t) ==
    /\ button' = TRUE
    /\ UNCHANGED progressBar
    /\ dialogs' = dialogs + 1

\* on_descarga_finalizada(mensaje) and on_descarga_error(mensaje_error)
on_descarga_terminada(t) ==
    /\ button' = TRUE
    /\ progressBar' = 0
    /\ dialogs' = dialogs + 1

\* The UI thread's event loop delivers the oldest queued signal to its slot.
Deliver ==
    /\ queue # <<>>
    /\ LET t == Head(queue).task
           sig == Head(queue).sig
       IN  /\ IF sig.name = "progress"
              THEN actualizar_progreso(t, sig.value)
              ELSE on_descarga_terminada(t)
           /\ applied' = [applied EXCEPT ![t] = Append(@, sig.name)]
    /\ queue' = Tail(queue)
    /\ UNCHANGED <<platform, fs, task, emitted, ops>>

\* The user closes a message box.
Dismiss ==
    /\ dialogs > 0
    /\ dialogs' = dialogs - 1
    /\ UNCHANGED <<platform, fs, task, emitted, ops, queue, button, progressBar,
                   applied>>

(***************************************************************************)
(* Specifications                                                          *)
(***************************************************************************)
\* The names a file already in the folder may have: the names a run reads
\* or writes.
SafeTitles == {sanitize_filename(title) : title \in Titles}
VideoNames ==
    {stem \o ext : stem \in SafeTitles \cup UNION {EngineStems(x) : x \in Titles},
                  ext \in Exts \cup {<<".", "a", "v", "i">>}}
PreNames ==
    VideoNames
        \cup {st \o <<".", "m", "p", "3">> : st \in SafeTitles}
        \cup {sanitize_filename(splitext(v)[1]) \o <<".", "w", "a", "v">> :
                v \in {st \o ext : st \in SafeTitles, ext \in Exts}}

RECURSIVE SetsUpTo(_, _)
SetsUpTo(S, k) ==
    IF k = 0 THEN {{}}
    ELSE LET prev == SetsUpTo(S, k - 1)
         IN  prev \cup {P \cup {x} : P \in prev, x \in S}

Jobs ==
    {j \in [separar_audio : BOOLEAN, formato_video : VideoFormats,
            formato_audio : AudioFormats] :
        j.separar_audio \/ j.formato_audio = "MP3"}

InitCommon ==
    /\ platform \in Platforms
    /\ emitted = [t \in TaskIds |-> <<>>]
    /\ ops = [t \in TaskIds |-> <<>>]
    /\ applied = [t \in TaskIds |-> <<>>]
    /\ queue = <<>>
    /\ button = TRUE
    /\ progressBar = 0
    /\ dialogs = 0
    /\ ret = <<>>

\* The statements of run() itself, one disjunct per step.
RunSteps(t, titles, exts) ==
    \/ Start(t)
    \/ DownloadEnd(t, titles, exts)
    \/ Rename(t)
    \/ AviStart(t)
    \/ AviRemove(t)
    \/ AviRun(t)
    \/ AviExit(t)
    \/ OriginalExists(t)
    \/ RemoveOriginal(t)
    \/ KeepVideo(t)
    \/ ExtraerAudio(t)
    \/ WriteAudiofile(t)
    \/ AudioExists(t)
    \/ NoAudio(t)
    \/ Mp3Start(t)
    \/ Mp3Remove(t)
    \/ Mp3Run(t)
    \/ Mp3Exit(t)
    \/ WavExists(t)
    \/ RemoveWav(t)
    \/ KeepWav(t)
    \/ Finish(t)

\* DownloadTask.run with the hook it registers (line 188): the engine calls
\* the hook from inside extract_info, between Start and DownloadEnd.
Pipeline(t, titles, exts, records) ==
    \/ ProgressHook(t, records)
    \/ RunSteps(t, titles, exts)

\* One DownloadTask, of any job, run on a folder that may already hold files.
Init ==
    /\ InitCommon
    /\ arg = <<>>
    /\ \E pre \in SetsUpTo(PreNames, MaxPreexisting) :
         fs = [p \in {join(<<"d1">>, n) : n \in pre} |-> Old]
    /\ \E j \in Jobs :
         task = [t \in TaskIds |->
                   IF t = 1
                   THEN NewTask(<<"u">>, <<"d1">>, j.separar_audio,
                                j.formato_video, j.formato_audio)
                   ELSE NoTask]

Next ==
    /\ \E t \in TaskIds : Pipeline(t, Titles, Exts, ProgressRecords)
    /\ UNCHANGED <<arg, ret>>

Spec == Init /\ [][Next]_vars

\* The window: the user submits jobs, the pool runs them, the event loop
\* delivers their signals.
InitUI ==
    /\ InitCommon
    /\ arg = <<>>
    /\ fs = << >>
    /\ task = [t \in TaskIds |-> NoTask]

NextUI ==
    /\ \/ \E urlText \in UrlTexts, carpetaText \in CarpetaTexts,
             separar_audio \in BOOLEAN, audioText \in AudioFormats,
             videoText \in VideoComboTexts :
               descargar_video(urlText, carpetaText, separar_audio, audioText,
                               videoText)
       \/ Deliver
       \/ Dismiss
       \/ \E t \in TaskIds : Pipeline(t, UITitles, UIExts, UIProgressRecords)
    /\ UNCHANGED <<arg, ret>>

SpecUI == InitUI /\ [][NextUI]_vars

\* One session of the window under fair scheduling.  The folder is empty or
\* already holds a file under every name a run uses, as earlier jobs leave
\* it; the user clicks, with valid or invalid input, until one job has run.
\* The worker pool runs the task it was given and every external call
\* returns or fails (each enabled step of run() is eventually taken), and
\* the event loop of the UI thread delivers every queued signal.
UIPreNames ==
    {stem \o ext :
        stem \in UNION {EngineStems(x) \cup {sanitize_filename(x)} : x \in UITitles},
        ext \in UIExts \cup {<<".", "a", "v", "i">>}}
      \cup {sanitize_filename(x) \o ext :
              x \in UITitles, ext \in {<<".", "m", "p", "3">>, <<".", "w", "a", "v">>}}

InitUILive ==
    /\ InitCommon
    /\ arg = <<>>
    /\ \E pre \in {{}, UIPreNames} :
         fs = [p \in {join(<<"d1">>, n) : n \in pre} |-> Old]
    /\ task = [t \in TaskIds |-> NoTask]

NextUILive ==
    /\ \/ /\ \A t \in TaskIds : task[t].pc # "done"
          /\ \E urlText \in UrlTexts, carpetaText \in CarpetaTexts,
                separar_audio \in BOOLEAN, audioText \in AudioFormats,
                videoText \in VideoComboTexts :
                  descargar_video(urlText, carpetaText, separar_audio, audioText,
                                  videoText)
       \/ Deliver
       \/ Dismiss
       \/ \E t \in TaskIds : Pipeline(t, UITitles, UIExts, UIProgressRecords)
    /\ UNCHANGED <<arg, ret>>

WorkerStep(t) == RunSteps(t, UITitles, UIExts) /\ UNCHANGED <<arg, ret>>
EventLoop == Deliver /\ UNCHANGED <<arg, ret>>

SpecUILive ==
    /\ InitUILive
    /\ [][NextUILive]_vars
    /\ \A t \in TaskIds : WF_vars(WorkerStep(t))
    /\ WF_vars(EventLoop)

\* Two DownloadTasks handed to the worker pool together, each with its own
\* destination folder; the first folder is empty and the second already
\* holds a file under every name a run uses.
PoolTasks == {1, 2}

\* Three jobs that between them take every branch of run().
PoolJobs ==
    { [separar_audio |-> TRUE, formato_video |-> "AVI", formato_audio |-> "MP3"],
      [separar_audio |-> TRUE, formato_video |-> "MP4", formato_audio |-> "WAV"],
      [separar_audio |-> FALSE, formato_video |-> "MP4", formato_audio |-> "MP3"] }
PoolFolder(t) == IF t = 1 THEN <<"d1">> ELSE <<"d2">>

InitPool ==
    /\ InitCommon
    /\ arg = <<>>
    /\ fs = [p \in {join(PoolFolder(2), n) : n \in UIPreNames} |-> Old]
    /\ \E j1 \in PoolJobs, j2 \in PoolJobs :
         task = [t \in TaskIds |->
                   IF t \in PoolTasks
                   THEN LET j == IF t = 1 THEN j1 ELSE j2
                        IN  NewTask(<<"u">>, PoolFolder(t), j.separar_audio,
                                    j.formato_video, j.formato_audio)
                   ELSE NoTask]

NextPool ==
    /\ \E t \in TaskIds : Pipeline(t, UITitles, UIExts, ProgressRecords)
    /\ UNCHANGED <<arg, ret>>

SpecPool == InitPool /\ [][NextPool]_vars

\* sanitize_filename alone, called on a string and again on its own result.
SanitizeChars == BadChars \cup {" ", "\t", "\n", "\\x0b", "\\x1c", "\\u3000", "a", "_"}
StringsUpTo(S, n) == UNION {[1 .. k -> S] : k \in 0 .. n}

InitSanitize ==
    /\ InitCommon
    /\ fs = << >>
    /\ task = [t \in TaskIds |-> NoTask]
    /\ arg \in StringsUpTo(SanitizeChars, MaxStrLen)

SanitizeCall ==
    /\ Len(ret) < 2
    /\ ret' = Append(ret, sanitize_filename(IF ret = <<>> THEN arg ELSE ret[Len(ret)]))
    /\ UNCHANGED <<platform, fs, task, emitted, ops, queue, button, progressBar,
                   dialogs, applied, arg>>

NextSanitize == SanitizeCall

SpecSanitize == InitSanitize /\ [][NextSanitize]_vars

\* The progress hook alone, called during a download with a record of the
\* engine: a percent string built from an optional colour code, padding, a
\* number, '%' and an optional reset code, or a string that is no number,
\* or no percent string at all, under each status the engine reports.
Numbers ==
    { [str |-> <<"0", ".", "0">>, val |-> Float(0, 0)],
      [str |-> <<"7", ".", "0">>, val |-> Float(7, 0)],
      [str |-> <<"4", "5", ".", "3">>, val |-> Float(453, 1)],
      [str |-> <<"1", "0", "0", ".", "0">>, val |-> Float(100, 0)],
      [str |-> <<"1", "0", "0">>, val |-> Float(100, 0)] }
WellFormed ==
    { [str |-> pre \o pad \o n.str \o <<"%">> \o post, val |-> n.val] :
        pre \in {<<>>, AnsiBlue}, pad \in {<<>>, <<" ">>, <<" ", " ">>},
        n \in Numbers, post \in {<<>>, AnsiReset} }
      \cup { [str |-> <<"\\x1c", "5", "%">>, val |-> Float(5, 0)],
              [str |-> AnsiBlue \o <<"\\x0b", "5", "%">>, val |-> Float(5, 0)] }
Malformed ==
    { <<"-", "-">>, <<" ", " ", "N", "/", "A", "%">>, <<>>, <<"%">>,
      <<"4", ".", "5", ".", "3", "%">>, AnsiBlue \o <<"%">> \o AnsiReset,
      <<ESC, "[", "0", ";", "3", "2", "m">> \o <<"7", ".", "0", "%">> \o AnsiReset,
      AnsiBlue \o <<"\\x1c", "5", "%">> }
Statuses == {"downloading", "finished", "error"}
HookRecords ==
    [status : Statuses, has_percent : {TRUE},
     percent_str : {w.str : w \in WellFormed} \cup Malformed]
        \cup [status : Statuses, has_percent : {FALSE}, percent_str : {<<>>}]

InitProgress ==
    /\ InitCommon
    /\ fs = << >>
    /\ task = [t \in TaskIds |->
                 IF t = 1 THEN NewTask(<<"u">>, <<"d1">>, FALSE, "MP4", "MP3")
                 ELSE NoTask]
    /\ arg \in HookRecords

NextProgress ==
    /\ \/ Start(1)
       \/ ProgressHook(1, {arg})
    /\ UNCHANGED <<arg, ret>>

SpecProgress == InitProgress /\ [][NextProgress]_vars

(***************************************************************************)
(* Properties                                                              *)
(***************************************************************************)
IsTerminal(sig) == sig.name \in {"finished", "error"}
Terminals(t) == SelectSeq(emitted[t], IsTerminal)
Succeeded(t) ==
    /\ task[t].pc = "done"
    /\ Len(Terminals(t)) = 1
    /\ Terminals(t)[1].name = "finished"
Failed(t) ==
    /\ task[t].pc = "done"
    /\ Len(Terminals(t)) = 1
    /\ Terminals(t)[1].name = "error"
OpNames(t) == {ops[t][i].op : i \in 1 .. Len(ops[t])}
OwnFiles(t) == {p \in DOMAIN fs : fs[p].by = t}
Downloaded(t) == "download" \in OpNames(t)

\* The paths of section 4.2, from the title and the file the engine returned.
SafeTitle(t) == sanitize_filename(task[t].title)
Named(t, ext) == join(task[t].carpeta, SafeTitle(t) \o ext)
RawDownloadPath(t) == task[t].original_video_path
SanitizedVideoPath(t) == Named(t, splitext(basename(RawDownloadPath(t)))[2])
FinalVideoPath(t) ==
    IF IsAvi(task[t].formato_video) THEN Named(t, <<".", "a", "v", "i">>)
    ELSE SanitizedVideoPath(t)
IntermediateWavPath(t) == Named(t, <<".", "w", "a", "v">>)
FinalAudioPath(t) == Named(t, <<".", "m", "p", "3">>)

\* C1: every run of DownloadTask.run emits exactly one terminal signal,
\* 'finished' or 'error': never two, and one has been emitted whenever run()
\* has returned, whichever step failed; the terminal signal is the last
\* thing run() does.
C1_ExactlyOneTerminal ==
    \A t \in TaskIds :
        /\ Len(Terminals(t)) <= 1
        /\ task[t].pc = "done" <=> Len(Terminals(t)) = 1
        /\ Len(Terminals(t)) = 1 => IsTerminal(emitted[t][Len(emitted[t])])

\* A run that reported progress and failed in a file deletion after the
\* audio was transcoded.
C1_Witness ==
    \E t \in TaskIds :
        /\ Failed(t)
        /\ emitted[t][1].name = "progress"
        /\ Terminals(t)[1].cause = "PermissionError"
        /\ "convertir_audio_a_mp3" \in OpNames(t)

\* C2: a successful run of a job AVI (DivX) + split audio + MP3 leaves
\* exactly <safeTitle>.avi and <safeTitle>.mp3; the raw download, the
\* sanitized pre-conversion video and the intermediate WAV do not exist.
C2_AviMp3Artifacts ==
    \A t \in TaskIds :
        (/\ Succeeded(t)
         /\ IsAvi(task[t].formato_video)
         /\ task[t].separar_audio
         /\ task[t].formato_audio = "MP3")
        => /\ OwnFiles(t) = {FinalVideoPath(t), FinalAudioPath(t)}
           /\ ~exists(fs, RawDownloadPath(t))
           /\ ~exists(fs, SanitizedVideoPath(t))
           /\ ~exists(fs, IntermediateWavPath(t))
           /\ ~exists(fs, task[t].audio_wav_path)

\* Such a run, which reported progress and whose download had to be renamed.
C2_Witness ==
    \E t \in TaskIds :
        /\ Succeeded(t)
        /\ emitted[t][1].name = "progress"
        /\ IsAvi(task[t].formato_video)
        /\ task[t].separar_audio
        /\ task[t].formato_audio = "MP3"
        /\ RawDownloadPath(t) # SanitizedVideoPath(t)
        /\ exists(fs, FinalVideoPath(t))
        /\ exists(fs, FinalAudioPath(t))

\* C3: a successful run of a job MP4 without split audio leaves exactly the
\* sanitized video, which is the final video; the raw download is gone when
\* its path differs, and no transcoder or extractor was invoked.
C3_Mp4Artifacts ==
    \A t \in TaskIds :
        (/\ Succeeded(t)
         /\ ~IsAvi(task[t].formato_video)
         /\ ~task[t].separar_audio)
        => /\ OwnFiles(t) = {FinalVideoPath(t)}
           /\ task[t].video_output_path = SanitizedVideoPath(t)
           /\ RawDownloadPath(t) # SanitizedVideoPath(t)
                => ~exists(fs, RawDownloadPath(t))
           /\ OpNames(t) \subseteq {"download", "rename"}

\* Such a run, which reported progress and whose download had to be renamed.
C3_Witness ==
    \E t \in TaskIds :
        /\ Succeeded(t)
        /\ Len(emitted[t]) = 2
        /\ emitted[t][1].name = "progress"
        /\ ~IsAvi(task[t].formato_video)
        /\ ~task[t].separar_audio
        /\ RawDownloadPath(t) # SanitizedVideoPath(t)
        /\ "rename" \in OpNames(t)

\* C4: a successful run of a job with split audio and WAV ends with a file
\* at <safeTitle>.wav, and the MP3 transcoder was never invoked.
C4_WavKept ==
    \A t \in TaskIds :
        (/\ Succeeded(t)
         /\ task[t].separar_audio
         /\ task[t].formato_audio = "WAV")
        => /\ exists(fs, IntermediateWavPath(t))
           /\ "convertir_audio_a_mp3" \notin OpNames(t)

\* C5 as stated: any failure of the download step gives one 'error' whose
\* message begins with "Error al descargar", no 'finished', and no rename,
\* transcode, extraction or deletion.
C5_AnyDownloadFailure ==
    \A t \in TaskIds :
        (task[t].pc = "done" /\ ~Downloaded(t))
        => /\ Failed(t)
           /\ Terminals(t)[1].prefix = "Error al descargar el video: "
           /\ ops[t] = <<>>

\* C5 amended: a failure of the download step gives one 'error', no
\* 'finished', and no rename, transcode, extraction or deletion; the message
\* begins with "Error al descargar" when the engine raised DownloadError and
\* with "Error inesperado" when it raised anything else.
C5_DownloadFailure ==
    \A t \in TaskIds :
        (task[t].pc = "done" /\ ~Downloaded(t))
        => /\ Failed(t)
           /\ Terminals(t)[1].prefix =
                 (IF Terminals(t)[1].cause = "DownloadError"
                  THEN "Error al descargar el video: "
                  ELSE "Error inesperado: ")
           /\ ops[t] = <<>>

\* A run whose engine reported progress and then raised DownloadError.
C5_Witness ==
    \E t \in TaskIds :
        /\ Failed(t)
        /\ ~Downloaded(t)
        /\ Terminals(t)[1].cause = "DownloadError"
        /\ Len(emitted[t]) = 2
        /\ emitted[t][1].name = "progress"

\* C6: a run on a folder that already holds a file at the final video path
\* never fails because that file exists.
C6_NeverFileExists ==
    \A t \in TaskIds :
        (/\ Failed(t)
         /\ Downloaded(t)
         /\ exists(fs, FinalVideoPath(t))
         /\ fs[FinalVideoPath(t)] = Old)
        => Terminals(t)[1].cause # "FileExistsError"

\* A task the window has started and whose terminal signal it has not yet
\* handled.
Handled(t) == \E i \in 1 .. Len(applied[t]) : applied[t][i] \in {"finished", "error"}
InFlight(t) == task[t].pc # "none" /\ ~Handled(t)

\* C7: through the window at most one pipeline is in flight: from the start
\* of a task until its terminal signal has been handled the submit button is
\* disabled and no second task exists, for every interleaving of clicks,
\* worker steps and signal deliveries.
C7_AtMostOneInFlight ==
    /\ Cardinality({t \in TaskIds : InFlight(t)}) <= 1
    /\ (\E t \in TaskIds : InFlight(t)) => ~button

\* A run has emitted its terminal signal, which still waits in the queue.
C7_Witness ==
    \E t \in TaskIds :
        /\ InFlight(t)
        /\ task[t].pc = "done"
        /\ queue # <<>>
        /\ ~button

NoProgressAfterTerminal(t) ==
    \A i, j \in 1 .. Len(applied[t]) :
        (i < j /\ applied[t][i] \in {"finished", "error"}) => applied[t][j] # "progress"

TerminalHandledNow(t) ==
    /\ applied'[t] # applied[t]
    /\ applied'[t] # <<>>
    /\ applied'[t][Len(applied'[t])] \in {"finished", "error"}

\* C8: when the window handles a run's terminal signal, 'finished' or
\* 'error', the submit button is enabled again and the progress bar is set
\* to 0, and no progress update of that run is applied after it.
C8_ResetOnTerminal ==
    /\ [][\A t \in TaskIds :
            TerminalHandledNow(t) => (button' /\ progressBar' = 0)]_vars
    /\ [](\A t \in TaskIds : NoProgressAfterTerminal(t))

\* A terminal signal handled after a progress update of the same run.
C8_Witness ==
    \E t \in TaskIds :
        /\ applied[t] = <<"progress", "finished">>
        /\ button
        /\ progressBar = 0

\* C9: a submission with an empty URL or an empty or invalid destination
\* folder creates no DownloadTask.
C9_InvalidRejected ==
    \A t \in TaskIds :
        task[t].pc # "none"
        => /\ task[t].url # <<>>
           /\ task[t].carpeta # <<>>
           /\ task[t].carpeta \in UsableFolders

FileChanged(p) ==
    \/ (p \in DOMAIN fs) # (p \in DOMAIN fs')
    \/ p \in DOMAIN fs /\ p \in DOMAIN fs' /\ fs[p] # fs'[p]

\* C10: two tasks run together with distinct folders each emit one terminal
\* signal on their own signals object, which carries no more progress
\* signals than their own hook was called, and every file a task creates,
\* renames or deletes lies in its own folder, in every interleaving.
C10_PoolIsolation ==
    /\ [](\A t \in PoolTasks :
            /\ Len(Terminals(t)) <= 1
            /\ task[t].pc = "done" <=> Len(Terminals(t)) = 1
            /\ Len(emitted[t]) - Len(Terminals(t)) <= task[t].nprog
            /\ \A p \in OwnFiles(t) : dirname(p) = task[t].carpeta
            /\ \A i \in 1 .. Len(ops[t]) :
                 /\ dirname(ops[t][i].path) = task[t].carpeta
                 /\ ops[t][i].to # NoPath => dirname(ops[t][i].to) = task[t].carpeta)
    /\ [][\A p \in DOMAIN fs \cup DOMAIN fs' :
            FileChanged(p)
            => \E t \in PoolTasks :
                 task'[t] # task[t] /\ dirname(p) = task[t].carpeta]_vars

\* Both tasks have reported progress and ended, one in success and one in
\* failure, and have left a file of the same name each in its own folder.
C10_Witness ==
    /\ Succeeded(1)
    /\ Failed(2)
    /\ \A t \in PoolTasks : Len(emitted[t]) = 2 /\ emitted[t][1].name = "progress"
    /\ \E p \in OwnFiles(1), q \in OwnFiles(2) :
         basename(p) = basename(q) /\ dirname(p) # dirname(q)
ProgressEmittedNow(t) ==
    /\ Len(emitted'[t]) = Len(emitted[t]) + 1
    /\ emitted'[t][Len(emitted'[t])].name = "progress"

\* C11: within one run every progress signal precedes the terminal signal:
\* a progress signal is emitted only while run() is inside the download
\* step, and none follows 'finished' or 'error'.
C11_ProgressBeforeTerminal ==
    /\ [][\A t \in TaskIds :
            ProgressEmittedNow(t)
            => task[t].pc = "downloading" /\ task'[t].pc = "downloading"]_vars
    /\ [](\A t \in TaskIds :
            \A i, j \in 1 .. Len(emitted[t]) :
                (i < j /\ IsTerminal(emitted[t][i]))
                => emitted[t][j].name # "progress")

\* A run that reported progress during its download and then succeeded.
C11_Witness ==
    \E t \in TaskIds :
        /\ Len(emitted[t]) = 2
        /\ emitted[t][1].name = "progress"
        /\ emitted[t][1].value = Float(453, 1)
        /\ emitted[t][2].name = "finished"

\* C12: sanitize_filename returns a string for every string; the result has
\* none of the characters < > : " / \ | ? * and no leading or trailing
\* whitespace (str.isspace), and sanitizing it again gives the same string.
C12_SanitizeIdempotent ==
    /\ \A i \in 1 .. Len(ret) :
         /\ DOMAIN ret[i] = 1 .. Len(ret[i])
         /\ Len(ret[i]) <= Len(arg)
         /\ \A k \in 1 .. Len(ret[i]) : ret[i][k] \in SanitizeChars
         /\ \A k \in 1 .. Len(ret[i]) : ret[i][k] \notin BadChars
         /\ ret[i] # <<>>
              => ret[i][1] \notin Whitespace /\ ret[i][Len(ret[i])] \notin Whitespace
    /\ Len(ret) = 2 => ret[2] = ret[1]

\* A string with whitespace at both ends and forbidden characters between,
\* sanitized twice.
C12_Witness ==
    /\ Len(arg) = MaxStrLen
    /\ arg[1] = " "
    /\ arg[Len(arg)] = "\t"
    /\ Cardinality({k \in 1 .. Len(arg) : arg[k] \in BadChars}) = Len(arg) - 2
    /\ Len(ret) = 2
    /\ ret[1] # <<>>

\* The number a percent string stands for, 0.0 if it stands for none.
NumericValue(d) ==
    IF d.has_percent /\ \E w \in WellFormed : w.str = d.percent_str
    THEN (CHOOSE w \in WellFormed : w.str = d.percent_str).val
    ELSE Float(0, 0)

\* C13: the progress hook handles every record of the engine: it emits a
\* progress signal exactly when the record's status is "downloading", with
\* the number the percent string stands for, or 0.0 when the string is
\* malformed or absent; and it never raises (the download goes on).
C13_HookTotalFiltering ==
    /\ task[1].pc \in {"pending", "downloading"}
    /\ Terminals(1) = <<>>
    /\ emitted[1] =
         IF arg.status = "downloading"
         THEN [i \in 1 .. task[1].nprog |->
                 Signal("progress", "", "", NumericValue(arg))]
         ELSE <<>>

\* The hook has been called with "45.3%" followed by the reset code.
C13_Witness ==
    /\ arg.status = "downloading"
    /\ arg.percent_str = <<"4", "5", ".", "3", "%">> \o AnsiReset
    /\ task[1].nprog = 1
    /\ emitted[1] = <<Signal("progress", "", "", Float(453, 1))>>

\* run() has gone past the video step (lines 220-229).
PastVideoTranscoding(t) ==
    \/ task[t].pc \in {"audio", "extracting", "written", "extracted",
                       "mp3_removing", "mp3_starting", "mp3_running",
                       "mp3_done", "wav_removing", "message"}
    \/ Succeeded(t)
    \/ task[t].pc = "done" /\ "extraer_audio" \in OpNames(t)

\* run() is inside the AVI (DivX) video step: convertir_a_avi_divx has been
\* called (lines 220-222) and line 225 has not yet returned.
InAviVideoStep(t) ==
    task[t].pc \in {"avi_removing", "avi_starting", "avi_running", "avi_done",
                    "original_removing"}

StepRank(name) ==
    CASE name = "download" -> 1
      [] name = "rename" -> 2
      [] name = "convertir_a_avi_divx" -> 3
      [] name = "extraer_audio" -> 4
      [] name = "convertir_audio_a_mp3" -> 5
      [] OTHER -> 0
IsStep(o) == StepRank(o.op) > 0
Steps(t) == SelectSeq(ops[t], IsStep)

\* C15: the steps of a run come in the order download, rename, video
\* transcode, audio extraction, audio transcode, success message, each at
\* most once; the AVI transcoder is invoked only for AVI (DivX) and by every
\* successful AVI run, the extractor only with split audio and by every
\* successful split-audio run, the MP3 transcoder only with split audio and
\* MP3 and by every such successful run; the extractor reads the final
\* video path; 'finished' is emitted after every step.
C15_StepOrder ==
    \A t \in TaskIds :
        /\ \A i, j \in 1 .. Len(Steps(t)) :
              i < j => StepRank(Steps(t)[i].op) < StepRank(Steps(t)[j].op)
        /\ "convertir_a_avi_divx" \in OpNames(t) => IsAvi(task[t].formato_video)
        /\ "extraer_audio" \in OpNames(t) => task[t].separar_audio
        /\ "convertir_audio_a_mp3" \in OpNames(t)
              => task[t].separar_audio /\ task[t].formato_audio = "MP3"
        /\ Succeeded(t)
              => /\ "download" \in OpNames(t)
                 /\ IsAvi(task[t].formato_video)
                      => "convertir_a_avi_divx" \in OpNames(t)
                 /\ task[t].separar_audio => "extraer_audio" \in OpNames(t)
                 /\ (task[t].separar_audio /\ task[t].formato_audio = "MP3")
                      => "convertir_audio_a_mp3" \in OpNames(t)
        /\ \A i \in 1 .. Len(ops[t]) :
              /\ ops[t][i].op = "extraer_audio" => ops[t][i].path = FinalVideoPath(t)
              /\ ops[t][i].op = "rename" => ops[t][i].path # ops[t][i].to
        /\ Len(Terminals(t)) = 1 => task[t].pc = "done"

\* A successful run that reported progress and went through every step.
C15_Witness ==
    \E t \in TaskIds :
        /\ Succeeded(t)
        /\ emitted[t][1].name = "progress"
        /\ [i \in 1 .. Len(Steps(t)) |-> Steps(t)[i].op] =
             <<"download", "rename", "convertir_a_avi_divx", "extraer_audio",
               "convertir_audio_a_mp3">>

LastOp(t) == ops[t][Len(ops[t])].op
LastStep(t) == Steps(t)[Len(Steps(t))].op
Transcoders == {"convertir_a_avi_divx", "convertir_audio_a_mp3"}

\* The exception reported is one the last side effect of the run can raise.
CauseFits(t) ==
    LET c == Terminals(t)[1].cause
    IN  CASE c = "FileExistsError" -> LastOp(t) = "rename"
          [] c = "FileNotFoundError" ->
               LastOp(t) \in Transcoders \cup {"rename", "remove"}
          [] c = "CalledProcessError" -> LastOp(t) \in Transcoders
          [] c = "PermissionError" -> LastOp(t) \in {"remove", "rename"}
          [] c \in {"OSError", "RuntimeError", "Exception"} ->
               LastOp(t) = "extraer_audio"
          [] OTHER -> FALSE

\* C16: a failure of the rename, the video transcode, the audio extraction
\* or the audio transcode ends the run as failed: one 'error' whose message
\* begins with "Error inesperado" and embeds the exception, no 'finished',
\* and nothing executed after the failing call: it is the last side effect
\* of the run, and the files the later deletions would have removed are
\* still there.
C16_ShortCircuit ==
    \A t \in TaskIds :
        (task[t].pc = "done" /\ Downloaded(t) /\ ~Succeeded(t))
        => /\ Failed(t)
           /\ Terminals(t)[1].prefix = "Error inesperado: "
           /\ CauseFits(t)
           /\ emitted[t][Len(emitted[t])] = Terminals(t)[1]
           /\ LastOp(t) = "rename"
                => /\ OpNames(t) = {"download", "rename"}
                   /\ exists(fs, RawDownloadPath(t))
           /\ (LastStep(t) = "convertir_a_avi_divx"
                  /\ SanitizedVideoPath(t) # FinalVideoPath(t))
                => /\ exists(fs, SanitizedVideoPath(t))
                   /\ "extraer_audio" \notin OpNames(t)
           /\ LastStep(t) = "extraer_audio"
                => "convertir_audio_a_mp3" \notin OpNames(t)
           /\ LastStep(t) = "convertir_audio_a_mp3"
                => exists(fs, task[t].audio_wav_path)

\* The download has reported progress and the MP3 transcoder has exited
\* with an error after a successful AVI transcode: the WAV is left in place.
C16_Witness ==
    \E t \in TaskIds :
        /\ Failed(t)
        /\ Len(emitted[t]) = 2
        /\ emitted[t][1].name = "progress"
        /\ Terminals(t)[1].cause = "CalledProcessError"
        /\ LastOp(t) = "convertir_audio_a_mp3"
        /\ "convertir_a_avi_divx" \in OpNames(t)
        /\ exists(fs, task[t].audio_wav_path)
        /\ fs[task[t].audio_wav_path] = File(t, "wav")

\* C17: when run() starts an external transcoder, at the moment the ffmpeg
\* process is started no file exists at its output path and its input file
\* exists, for every job and every extension of the download, also when
\* input and output are the same path.
C17_TranscoderStart ==
    \A t \in TaskIds :
        /\ task[t].pc = "avi_running"
             => /\ ~exists(fs, task[t].final_output_path)
                /\ exists(fs, task[t].sanitized_video_path)
        /\ task[t].pc = "mp3_running"
             => /\ ~exists(fs, task[t].final_output_path)
                /\ exists(fs, task[t].audio_wav_path)

\* C18: a run that has completed its download never ends with the video
\* lost: when it has ended, in success or in failure, a file exists at the
\* sanitized path, at the raw download path or at the final video path.
C18_VideoNeverLost ==
    \A t \in TaskIds :
        (task[t].pc = "done" /\ Downloaded(t))
        => \/ exists(fs, SanitizedVideoPath(t))
           \/ exists(fs, RawDownloadPath(t))
           \/ exists(fs, FinalVideoPath(t))

\* C19: with every external call returning or failing and the worker pool
\* and the event loop fairly scheduled, every task created by
\* descargar_video eventually reaches the state where run() has returned,
\* its one terminal signal has been emitted, the window has handled it and
\* the submit button is enabled again.
C19_Liveness ==
    \A t \in TaskIds :
        (task[t].pc = "pending")
            ~> (/\ task[t].pc = "done"
                /\ Len(Terminals(t)) = 1
                /\ Handled(t)
                /\ button)

\* A failed run whose 'error' the window has handled: the button is enabled
\* while the message box is still open.
C19_Witness ==
    \E t \in TaskIds :
        /\ Failed(t)
        /\ Handled(t)
        /\ applied[t][Len(applied[t])] = "error"
        /\ button
        /\ dialogs > 0
====
